---- MODULE Spec2Model ----
(***************************************************************************)
(* Model of simulation/main.cpp: the SDL sphere toy.  The state is the     *)
(* vector of spheres, the quit flag and the position of main() in its      *)
(* frame loop; one action per step of that loop.                           *)
(*                                                                         *)
(* Numbers.  The program computes in IEEE doubles.  Here a double is a     *)
(* fixed-point number: the integer v stands for v / SCALE pixels.  Every   *)
(* stored value is the exact value of the source expression rounded to the *)
(* nearest unit (RoundDiv): products, quotients and the square root round, *)
(* as they do in a double, at a coarser grain.  Sums, integer conversions  *)
(* and the decimal literals of the program are exact here; in a double a   *)
(* sum rounds too, in its last binary place.                               *)
(***************************************************************************)
EXTENDS Integers, Sequences, FiniteSets, TLC

\* ------------------------------------------------------------------ bounds
\* SCALE units make a pixel.  It is a multiple of 20, so that the program's
\* literals 0.2, 0.5 and 0.8 and the quotient 1 / 0.8 are exact.
Resolution == 5
SCALE == 20 * Resolution
MaxBodies == 2
MaxFrames == 3
MaxEvents == 2
MaxFall == 3

\* ------------------------------------------------------- program constants
SCREEN_WIDTH == 640
SCREEN_HEIGHT == 480
SPHERE_RADIUS == 20

\* ------------------------------------------------------------- arithmetic
\* a / b rounded to the nearest integer (b > 0).
RoundDiv(a, b) == (2 * a + b) \div (2 * b)

\* An int of the program (a pixel coordinate, a literal) as a double.
FromInt(n) == n * SCALE

\* The double literal num/den.
Literal(num, den) == RoundDiv(num * SCALE, den)

GRAVITY == Literal(2, 10)
BOUNCE_FACTOR == Literal(8, 10)

\* a * b and a / b on doubles.
Mul(a, b) == RoundDiv(a * b, SCALE)
Div(a, b) == RoundDiv(a * SCALE, b)

Abs(a) == IF a < 0 THEN -a ELSE a

RECURSIVE FloorSqrt(_, _, _)
\* The largest r in lo..hi with r * r <= n, by bisection (lo * lo <= n).
FloorSqrt(n, lo, hi) ==
    IF lo >= hi THEN lo
    ELSE LET mid == (lo + hi + 1) \div 2
         IN  IF mid * mid <= n THEN FloorSqrt(n, mid, hi)
             ELSE FloorSqrt(n, lo, mid - 1)

\* std::sqrt(x * x + y * y), rounded to the nearest unit.  When one
\* component alone reaches 2 * SPHERE_RADIUS + 1 pixels the root is only ever
\* compared with 2 * SPHERE_RADIUS: the larger component, a lower bound of
\* the root, stands for it (and keeps the squares within TLC's integers).
Hypot(x, y) ==
    LET far == FromInt(2 * SPHERE_RADIUS + 1)
    IN  IF Abs(x) >= far \/ Abs(y) >= far
        THEN IF Abs(x) >= Abs(y) THEN Abs(x) ELSE Abs(y)
        ELSE LET n == 4 * (x * x + y * y)
             IN  (FloorSqrt(n, 0, 4 * far) + 1) \div 2

\* ---------------------------------------------------------------- Vector2
Vector2(x, y) == [x |-> x, y |-> y]
VAdd(a, b) == Vector2(a.x + b.x, a.y + b.y)
VSub(a, b) == Vector2(a.x - b.x, a.y - b.y)

\* ----------------------------------------------------------------- inputs
\* Pointer positions the input source may report (window coordinates).
Clicks == {<<10, 459>>, <<100, 460>>, <<110, 425>>, <<630, 425>>}

VARIABLES
    spheres,    \* std::vector<Sphere> spheres
    quit,       \* bool quit
    pc,         \* where main() is: top, poll, integrate, boundary, collide, render, exit
    i,          \* index of `sphere` in the update loop
    j,          \* index of `otherSphere` in the pairwise loop
    frame,      \* frames started so far
    polled,     \* events delivered in the current frame
    log,        \* ghost: the operations of the current tick, in order
    hist,       \* ghost: per sphere, what happened to it since it was spawned
    last        \* ghost: the step just taken and what it acted on

vars == <<spheres, quit, pc, i, j, frame, polled, log, hist, last>>

NoStep == [kind |-> "none"]

\* ----------------------------------------------------------------- Sphere
\* rand() is never seeded, so the colour of the n-th sphere is a fixed value:
\* it is identified by the position of its three draws in rand()'s sequence.
MapRGB(n) == 3 * n

\* Mutant of NewSphere: the coordinates of the press swapped.
NewSphereSwapped(x, y, n) ==
    [position |-> Vector2(FromInt(y), FromInt(x)),
     velocity |-> Vector2(FromInt(0), FromInt(0)),
     color |-> MapRGB(n),
     bounceFactor |-> BOUNCE_FACTOR]

\* The sphere a left click at (x, y) makes, its colour the n-th of rand().
NewSphere(x, y, n) ==
    [position |-> Vector2(FromInt(x), FromInt(y)),
     velocity |-> Vector2(FromInt(0), FromInt(0)),
     color |-> MapRGB(n),
     bounceFactor |-> BOUNCE_FACTOR]

\* Mutant of Integrate: the position moved by the velocity before gravity.
IntegratePositionFirst(sphere) ==
    [sphere EXCEPT !.position = VAdd(sphere.position, sphere.velocity),
                   !.velocity = Vector2(sphere.velocity.x, sphere.velocity.y + GRAVITY)]

\* Gravity on the velocity, then the new velocity on the position.
Integrate(sphere) ==
    LET velocity == Vector2(sphere.velocity.x, sphere.velocity.y + GRAVITY)
    IN  [sphere EXCEPT !.velocity = velocity,
                       !.position = VAdd(sphere.position, velocity)]

HitsBottom(sphere) ==
    sphere.position.y + FromInt(SPHERE_RADIUS) >= FromInt(SCREEN_HEIGHT)
HitsLeft(sphere) == sphere.position.x - FromInt(SPHERE_RADIUS) <= 0
HitsRight(sphere) ==
    sphere.position.x + FromInt(SPHERE_RADIUS) >= FromInt(SCREEN_WIDTH)

\* Mutant of ResolveBoundaries: the floor reverses the velocity at full speed.
ResolveBoundariesElastic(sphere) ==
    LET a == IF HitsBottom(sphere)
             THEN [sphere EXCEPT
                     !.position.y = FromInt(SCREEN_HEIGHT) - FromInt(SPHERE_RADIUS),
                     !.velocity.y = -sphere.velocity.y]
             ELSE sphere
    IN  IF HitsLeft(a)
        THEN [a EXCEPT !.position.x = FromInt(SPHERE_RADIUS),
                       !.velocity.x = Mul(-a.velocity.x, BOUNCE_FACTOR)]
        ELSE IF HitsRight(a)
        THEN [a EXCEPT !.position.x = FromInt(SCREEN_WIDTH) - FromInt(SPHERE_RADIUS),
                       !.velocity.x = Mul(-a.velocity.x, BOUNCE_FACTOR)]
        ELSE a

\* The bottom check, then left or else right.
ResolveBoundaries(sphere) ==
    LET a == IF HitsBottom(sphere)
             THEN [sphere EXCEPT
                     !.position.y = FromInt(SCREEN_HEIGHT) - FromInt(SPHERE_RADIUS),
                     !.velocity.y = Mul(-sphere.velocity.y, BOUNCE_FACTOR)]
             ELSE sphere
    IN  IF HitsLeft(a)
        THEN [a EXCEPT !.position.x = FromInt(SPHERE_RADIUS),
                       !.velocity.x = Mul(-a.velocity.x, BOUNCE_FACTOR)]
        ELSE IF HitsRight(a)
        THEN [a EXCEPT !.position.x = FromInt(SCREEN_WIDTH) - FromInt(SPHERE_RADIUS),
                       !.velocity.x = Mul(-a.velocity.x, BOUNCE_FACTOR)]
        ELSE a

Distance(sphere1, sphere2) ==
    Hypot(sphere2.position.x - sphere1.position.x,
          sphere2.position.y - sphere1.position.y)

\* Mutant of Overlap: coincident centres are skipped.
OverlapGuarded(distance) == 0 < distance /\ distance < 2 * FromInt(SPHERE_RADIUS)

\* The `distance < totalRadius` test.
Overlap(distance) == distance < 2 * FromInt(SPHERE_RADIUS)

\* relativePosition * (1.0 / distance), for distance > 0.
Normal(sphere1, sphere2) ==
    LET relativePosition == VSub(sphere2.position, sphere1.position)
        distance == Distance(sphere1, sphere2)
    IN  Vector2(Div(relativePosition.x, distance), Div(relativePosition.y, distance))

\* normal . (sphere2.velocity - sphere1.velocity), rounded to the unit: a
\* closing speed below half a unit is zero here.
RelativeSpeed(normal, sphere1, sphere2) ==
    LET relativeVelocity == VSub(sphere2.velocity, sphere1.velocity)
    IN  RoundDiv(normal.x * relativeVelocity.x + normal.y * relativeVelocity.y, SCALE)

\* Mutant of Respond: the positional correction with its signs exchanged.
RespondPullingTogether(sphere1, sphere2, normal, relativeSpeed, penetration) ==
    LET inv1 == Div(FromInt(1), sphere1.bounceFactor)
        inv2 == Div(FromInt(1), sphere2.bounceFactor)
        impulse == Div(2 * relativeSpeed, inv1 + inv2)
        moveDistance == Mul(penetration, Literal(5, 10))
    IN  [sphere1 |->
            [sphere1 EXCEPT
               !.velocity = Vector2(sphere1.velocity.x + Mul(impulse, Mul(normal.x, inv1)),
                                    sphere1.velocity.y + Mul(impulse, Mul(normal.y, inv1))),
               !.position = Vector2(sphere1.position.x + Mul(moveDistance, normal.x),
                                    sphere1.position.y + Mul(moveDistance, normal.y))],
         sphere2 |->
            [sphere2 EXCEPT
               !.velocity = Vector2(sphere2.velocity.x - Mul(impulse, Mul(normal.x, inv2)),
                                    sphere2.velocity.y - Mul(impulse, Mul(normal.y, inv2))),
               !.position = Vector2(sphere2.position.x - Mul(moveDistance, normal.x),
                                    sphere2.position.y - Mul(moveDistance, normal.y))]]

\* The body of `if (relativeSpeed < 0)`: the velocity and position updates.
Respond(sphere1, sphere2, normal, relativeSpeed, penetration) ==
    LET inv1 == Div(FromInt(1), sphere1.bounceFactor)
        inv2 == Div(FromInt(1), sphere2.bounceFactor)
        impulse == Div(2 * relativeSpeed, inv1 + inv2)
        moveDistance == Mul(penetration, Literal(5, 10))
    IN  [sphere1 |->
            [sphere1 EXCEPT
               !.velocity = Vector2(sphere1.velocity.x + Mul(impulse, Mul(normal.x, inv1)),
                                    sphere1.velocity.y + Mul(impulse, Mul(normal.y, inv1))),
               !.position = Vector2(sphere1.position.x - Mul(moveDistance, normal.x),
                                    sphere1.position.y - Mul(moveDistance, normal.y))],
         sphere2 |->
            [sphere2 EXCEPT
               !.velocity = Vector2(sphere2.velocity.x - Mul(impulse, Mul(normal.x, inv2)),
                                    sphere2.velocity.y - Mul(impulse, Mul(normal.y, inv2))),
               !.position = Vector2(sphere2.position.x + Mul(moveDistance, normal.x),
                                    sphere2.position.y + Mul(moveDistance, normal.y))]]

\* Mutant of HandleSphereCollision: the positional correction applied to every
\* overlapping pair at a distance, closing or not.
HandleSphereCollisionAlwaysCorrecting(sphere1, sphere2) ==
    LET distance == Distance(sphere1, sphere2)
        totalRadius == 2 * FromInt(SPHERE_RADIUS)
        same == [sphere1 |-> sphere1, sphere2 |-> sphere2]
    IN  IF Overlap(distance)
        THEN IF distance = 0
             THEN same @@ [overlap |-> TRUE, divByZero |-> TRUE, response |-> FALSE]
             ELSE LET penetration == totalRadius - distance
                      normal == Normal(sphere1, sphere2)
                      relativeSpeed == RelativeSpeed(normal, sphere1, sphere2)
                  IN  IF relativeSpeed < 0
                      THEN Respond(sphere1, sphere2, normal, relativeSpeed, penetration)
                           @@ [overlap |-> TRUE, divByZero |-> FALSE, response |-> TRUE]
                      ELSE Respond(sphere1, sphere2, normal, 0, penetration)
                           @@ [overlap |-> TRUE, divByZero |-> FALSE, response |-> FALSE]
        ELSE same @@ [overlap |-> FALSE, divByZero |-> FALSE, response |-> FALSE]

\* handleSphereCollision: the two spheres afterwards, and which branches ran.
\* With distance == 0 the overlap branch is entered and 1.0 / distance is a
\* division by zero: +inf in IEEE arithmetic, so normal = 0 * inf is NaN, so
\* is relativeSpeed, and `relativeSpeed < 0` is false.
HandleSphereCollision(sphere1, sphere2) ==
    LET distance == Distance(sphere1, sphere2)
        totalRadius == 2 * FromInt(SPHERE_RADIUS)
        same == [sphere1 |-> sphere1, sphere2 |-> sphere2]
    IN  IF Overlap(distance)
        THEN IF distance = 0
             THEN same @@ [overlap |-> TRUE, divByZero |-> TRUE, response |-> FALSE]
             ELSE LET penetration == totalRadius - distance
                      normal == Normal(sphere1, sphere2)
                      relativeSpeed == RelativeSpeed(normal, sphere1, sphere2)
                  IN  IF relativeSpeed < 0
                      THEN Respond(sphere1, sphere2, normal, relativeSpeed, penetration)
                           @@ [overlap |-> TRUE, divByZero |-> FALSE, response |-> TRUE]
                      ELSE same @@ [overlap |-> TRUE, divByZero |-> FALSE,
                                    response |-> FALSE]
        ELSE same @@ [overlap |-> FALSE, divByZero |-> FALSE, response |-> FALSE]

\* Mutant of Distinct: the pairwise loop does not skip the sphere itself.
DistinctAlways(a, b) == TRUE

\* The `&sphere != &otherSphere` test of the pairwise loop.
Distinct(a, b) == a # b

\* ------------------------------------------------------------- main loop
Init ==
    /\ spheres = <<>>
    /\ quit = FALSE
    /\ pc = "top"
    /\ i = 0
    /\ j = 0
    /\ frame = 0
    /\ polled = 0
    /\ log = <<>>
    /\ hist = <<>>
    /\ last = NoStep

\* Mutant of ForSphere: the body of the update loop without its integration.
ForSphereUnintegrated(k) == IF k <= Len(spheres) THEN "boundary" ELSE "render"

\* Where the update loop goes for its k-th sphere: its body, or past the loop.
ForSphere(k) == IF k <= Len(spheres) THEN "integrate" ELSE "render"

\* What follows the integration of a sphere, and its boundary checks.
AfterIntegrate == "boundary"
AfterBoundary == "collide"

\* `while (!quit)` with quit set: the loop is left.
LoopExit ==
    /\ pc = "top"
    /\ quit
    /\ pc' = "exit"
    /\ last' = NoStep
    /\ UNCHANGED <<spheres, quit, i, j, frame, polled, log, hist>>

\* `while (!quit)` with quit clear: a frame starts with its event loop.
FrameStart ==
    /\ pc = "top"
    /\ ~quit
    /\ frame < MaxFrames
    /\ pc' = "poll"
    /\ frame' = frame + 1
    /\ polled' = 0
    /\ last' = NoStep
    /\ UNCHANGED <<spheres, quit, i, j, log, hist>>

\* Mutant of PollQuit: SDL_QUIT leaves the frame loop at once.
PollQuitBreaking ==
    /\ pc = "poll"
    /\ polled < MaxEvents
    /\ quit' = TRUE
    /\ polled' = polled + 1
    /\ pc' = "exit"
    /\ last' = [kind |-> "quit"]
    /\ UNCHANGED <<spheres, i, j, frame, log, hist>>

\* SDL_PollEvent delivers SDL_QUIT.
PollQuit ==
    /\ pc = "poll"
    /\ polled < MaxEvents
    /\ quit' = TRUE
    /\ polled' = polled + 1
    /\ last' = [kind |-> "quit"]
    /\ UNCHANGED <<spheres, pc, i, j, frame, log, hist>>

\* SDL_PollEvent delivers a left button press at (x, y).
PollClick(x, y) ==
    /\ pc = "poll"
    /\ polled < MaxEvents
    /\ Len(spheres) < MaxBodies
    /\ spheres' = Append(spheres, NewSphere(x, y, Len(spheres)))
    /\ hist' = Append(hist, [x0 |-> FromInt(x), y0 |-> FromInt(y), age |-> 0,
                             free |-> TRUE, vStart |-> Vector2(0, 0),
                             floorHit |-> FALSE, involved |-> FALSE])
    /\ polled' = polled + 1
    /\ last' = [kind |-> "spawn", x |-> x, y |-> y, before |-> spheres]
    /\ UNCHANGED <<quit, pc, i, j, frame, log>>

\* SDL_PollEvent delivers any other event (another button, a key): ignored.
PollOther ==
    /\ pc = "poll"
    /\ polled < MaxEvents
    /\ polled' = polled + 1
    /\ last' = [kind |-> "other"]
    /\ UNCHANGED <<spheres, quit, pc, i, j, frame, log, hist>>

\* SDL_PollEvent returns 0: the event loop ends and the update loop begins.
PollEmpty ==
    /\ pc = "poll"
    /\ pc' = ForSphere(1)
    /\ i' = IF Len(spheres) >= 1 THEN 1 ELSE 0
    /\ log' = <<>>
    /\ hist' = [k \in DOMAIN hist |->
                  [hist[k] EXCEPT !.vStart = spheres[k].velocity,
                                  !.floorHit = FALSE, !.involved = FALSE]]
    /\ last' = NoStep
    /\ UNCHANGED <<spheres, quit, j, frame, polled>>

\* Lines 148-152 for spheres[i].
IntegrateStep ==
    /\ pc = "integrate"
    /\ spheres' = [spheres EXCEPT ![i] = Integrate(@)]
    /\ pc' = AfterIntegrate
    /\ log' = Append(log, <<"integrate", i, i>>)
    /\ last' = NoStep
    /\ UNCHANGED <<quit, i, j, frame, polled, hist>>

\* Lines 154-177 for spheres[i].
BoundaryStep ==
    /\ pc = "boundary"
    /\ spheres' = [spheres EXCEPT ![i] = ResolveBoundaries(@)]
    /\ hist' = [hist EXCEPT
                  ![i].floorHit = HitsBottom(spheres[i]),
                  ![i].free = @ /\ ~HitsBottom(spheres[i]) /\ ~HitsLeft(spheres[i])
                                /\ ~HitsRight(spheres[i])]
    /\ pc' = AfterBoundary
    /\ j' = 1
    /\ log' = Append(log, <<"boundary", i, i>>)
    /\ last' = NoStep
    /\ UNCHANGED <<quit, i, frame, polled>>

\* One round of the pairwise loop: otherSphere = spheres[j].
CollideStep ==
    /\ pc = "collide"
    /\ j <= Len(spheres)
    /\ IF Distinct(i, j)
       THEN LET r == HandleSphereCollision(spheres[i], spheres[j])
            IN  /\ spheres' = [[spheres EXCEPT ![i] = r.sphere1] EXCEPT ![j] = r.sphere2]
                /\ hist' = [k \in DOMAIN hist |->
                              IF k \in {i, j} /\ r.response
                              THEN [hist[k] EXCEPT !.free = FALSE, !.involved = TRUE]
                              ELSE hist[k]]
                /\ log' = Append(log, <<"collide", i, j>>)
                /\ last' = [kind |-> "call", a |-> i, b |-> j,
                            pre1 |-> spheres[i], pre2 |-> spheres[j],
                            overlap |-> r.overlap, divByZero |-> r.divByZero,
                            response |-> r.response]
       ELSE /\ last' = NoStep
            /\ UNCHANGED <<spheres, hist, log>>
    /\ j' = j + 1
    /\ UNCHANGED <<quit, pc, i, frame, polled>>

\* The pairwise loop is over: on to the next sphere, or out of the update loop.
CollideDone ==
    /\ pc = "collide"
    /\ j > Len(spheres)
    /\ pc' = ForSphere(i + 1)
    /\ i' = IF i + 1 <= Len(spheres) THEN i + 1 ELSE 0
    /\ j' = 0
    /\ hist' = IF i + 1 <= Len(spheres) THEN hist
               ELSE [k \in DOMAIN hist |-> [hist[k] EXCEPT !.age = @ + 1]]
    /\ last' = NoStep
    /\ UNCHANGED <<spheres, quit, frame, polled, log>>

\* Clear, draw every sphere, present, SDL_Delay(16): back to the loop test.
Render ==
    /\ pc = "render"
    /\ pc' = "top"
    /\ last' = [kind |-> "render",
                drawn |-> [k \in DOMAIN spheres |-> spheres[k].position]]
    /\ UNCHANGED <<spheres, quit, i, j, frame, polled, log, hist>>

Next ==
    \/ LoopExit
    \/ FrameStart
    \/ PollQuit
    \/ \E c \in Clicks : PollClick(c[1], c[2])
    \/ PollOther
    \/ PollEmpty
    \/ IntegrateStep
    \/ BoundaryStep
    \/ CollideStep
    \/ CollideDone
    \/ Render

Spec == Init /\ [][Next]_vars

\* ------------------------------------------- handleSphereCollision alone
\* The first call of a tick, handleSphereCollision(spheres[1], spheres[2]), in
\* the states the program reaches with a sphere spawned at (x1, y1) that
\* has been alone for its first k ticks, the k-th just integrated and
\* boundary-resolved, and a second sphere spawned at (x2, y2) in this frame.
\* On each of these inputs the call takes the branch it takes in IEEE doubles,
\* and wherever its result falls short of 2 * SPHERE_RADIUS here it does so in
\* doubles as well.
CollideX1s == {100}
CollideY1s == {400, 430, 460}
CollideX2s == {71, 94, 100, 101, 106, 125}
CollideY2s == {395, 399, 400, 416, 428, 446}

RECURSIVE AloneFor(_, _)
\* The sphere after k ticks with no other sphere in the world.
AloneFor(sphere, k) ==
    IF k = 0 THEN sphere ELSE AloneFor(ResolveBoundaries(Integrate(sphere)), k - 1)

InitCollide ==
    \E x1 \in CollideX1s, y1 \in CollideY1s, k \in 1..MaxFall,
       x2 \in CollideX2s, y2 \in CollideY2s :
        /\ spheres = <<AloneFor(NewSphere(x1, y1, 0), k), NewSphere(x2, y2, 1)>>
        /\ quit = FALSE
        /\ pc = "collide"
        /\ i = 1
        /\ j = 2
        /\ frame = k
        /\ polled = 1
        /\ log = << <<"integrate", 1, 1>>, <<"boundary", 1, 1>> >>
        /\ hist = << [x0 |-> FromInt(x1), y0 |-> FromInt(y1), age |-> k - 1,
                      free |-> FALSE,
                      vStart |-> AloneFor(NewSphere(x1, y1, 0), k - 1).velocity,
                      floorHit |-> HitsBottom(Integrate(AloneFor(NewSphere(x1, y1, 0), k - 1))),
                      involved |-> FALSE],
                     [x0 |-> FromInt(x2), y0 |-> FromInt(y2), age |-> 0, free |-> TRUE,
                      vStart |-> Vector2(0, 0), floorHit |-> FALSE, involved |-> FALSE] >>
        /\ last = NoStep

SpecCollide == InitCollide /\ [][CollideStep]_vars

\* ================================================================= claims
\* A tick is complete, and nothing has run since, exactly when pc = "render".
TickDone == pc = "render"

\* The handleSphereCollision calls of the current tick so far.
Calls == {q \in DOMAIN log : log[q][1] = "collide"}

\* The step just taken was handleSphereCollision(spheres[last.a], spheres[last.b]).
Called == last.kind = "call"

\* C1: after every tick every body has radius <= position.x <= width - radius
\* and position.y <= height - radius.
BoundaryContainment ==
    TickDone =>
        \A k \in DOMAIN spheres :
            /\ FromInt(SPHERE_RADIUS) <= spheres[k].position.x
            /\ spheres[k].position.x <= FromInt(SCREEN_WIDTH) - FromInt(SPHERE_RADIUS)
            /\ spheres[k].position.y <= FromInt(SCREEN_HEIGHT) - FromInt(SPHERE_RADIUS)

\* C2 as claimed: within a tick no integration follows a boundary resolution
\* or a collision, and no boundary resolution follows a collision.
PhasesOrdered ==
    \A p, q \in DOMAIN log :
        p < q =>
            /\ ~(log[p][1] = "collide" /\ log[q][1] \in {"integrate", "boundary"})
            /\ ~(log[p][1] = "boundary" /\ log[q][1] = "integrate")

\* C2 as amended: the tick handles one body at a time, in insertion order.
\* Before a collision call on (a, b), body a and every body before it have been
\* integrated and then boundary-resolved in this tick, and no body after a has
\* been integrated or boundary-resolved yet.
PerBodyOrder ==
    \A q \in Calls :
        LET a == log[q][2]
        IN  /\ \A k \in 1..a :
                \E p1, p2 \in 1..(q - 1) :
                    /\ p1 < p2
                    /\ log[p1] = <<"integrate", k, k>>
                    /\ log[p2] = <<"boundary", k, k>>
            /\ \A p \in 1..(q - 1) : log[p][2] <= a

\* C2 witness: a collision call has just involved a body not yet integrated.
CollidedBeforeIntegrated ==
    /\ Called
    /\ last.b > last.a
    /\ \A p \in DOMAIN log : log[p] # <<"integrate", last.b, last.b>>

\* A body that began the tick moving down, reached the floor in it and took
\* part in no collision response.
FloorBounce(k) ==
    /\ TickDone
    /\ hist[k].vStart.y > 0
    /\ hist[k].floorHit
    /\ ~hist[k].involved

\* C5 as claimed: such a body ends the tick with velocity.y == -v * restitution,
\* v its velocity.y at the start of the tick, and position.y == height - radius.
BounceReversesStartVelocity ==
    \A k \in DOMAIN spheres :
        FloorBounce(k) =>
            /\ spheres[k].velocity.y = Mul(-hist[k].vStart.y, BOUNCE_FACTOR)
            /\ spheres[k].position.y = FromInt(SCREEN_HEIGHT) - FromInt(SPHERE_RADIUS)

\* C5 as amended: it ends the tick with velocity.y == -(v + gravity) * restitution
\* (gravity is added before the floor check) and position.y == height - radius.
BounceReversesIntegratedVelocity ==
    \A k \in DOMAIN spheres :
        FloorBounce(k) =>
            /\ spheres[k].velocity.y = Mul(-(hist[k].vStart.y + GRAVITY), BOUNCE_FACTOR)
            /\ spheres[k].position.y = FromInt(SCREEN_HEIGHT) - FromInt(SPHERE_RADIUS)

\* C5 witness: a falling body has just bounced off the floor.
SomeFloorBounce == \E k \in DOMAIN spheres : FloorBounce(k)

\* 1 + 2 + ... + n
Triangle(n) == (n * (n + 1)) \div 2

SpawnOnlyAppends ==
    [][/\ Len(spheres') >= Len(spheres)
       /\ last'.kind = "spawn" =>
            /\ Len(spheres') = Len(spheres) + 1
            /\ SubSeq(spheres', 1, Len(spheres)) = spheres
            /\ spheres'[Len(spheres')].position = Vector2(FromInt(last'.x), FromInt(last'.y))
            /\ spheres'[Len(spheres')].velocity = Vector2(0, 0)
            /\ spheres'[Len(spheres')].bounceFactor = BOUNCE_FACTOR]_vars

\* C7 witness: a sphere has just been spawned into a world that held a moving one.
SpawnedBesideMoving ==
    /\ last.kind = "spawn"
    /\ \E k \in DOMAIN last.before : last.before[k].velocity # Vector2(0, 0)

\* C8: the quit flag is never cleared; the loop is left only from its test at
\* the top, with the flag set; a frame whose events included Quit still
\* integrates every sphere and renders before that test; and once the flag is
\* set no new frame starts.
QuitAfterFrame ==
    [][/\ quit => quit'
       /\ (pc' = "exit" /\ pc # "exit") => (pc = "top" /\ quit)
       /\ (pc = "poll" /\ quit) => pc' \in {"poll", "integrate", "render"}
       /\ (pc' = "render" /\ pc # "render") =>
              \A k \in DOMAIN spheres : \E p \in DOMAIN log' : log'[p] = <<"integrate", k, k>>
       /\ (pc' = "top") => pc \in {"top", "render"}
       /\ quit => frame' = frame]_vars

\* C8 witness: the loop was left after a frame that polled Quit, ticked and rendered.
QuitFrameCompleted ==
    pc = "exit" /\ Len(log) >= 2 /\ last.kind = "none" /\ frame = 1

\* C9: a tick over n bodies calls handleSphereCollision once for every ordered
\* pair of distinct bodies, n * (n - 1) calls, and never on a body with itself.
EveryOrderedPairOnce ==
    TickDone =>
        /\ \A a, b \in DOMAIN spheres :
               Cardinality({q \in Calls : log[q][2] = a /\ log[q][3] = b})
                   = IF a # b THEN 1 ELSE 0
        /\ Cardinality(Calls) = Len(spheres) * (Len(spheres) - 1)

\* C9 witness: a tick over at least two bodies is complete.
TickOverTwoBodies == TickDone /\ Len(spheres) >= 2 /\ Cardinality(Calls) >= 2

\* handleSphereCollision has just run on two distinct bodies with one position.
CoincidentCall ==
    /\ Called
    /\ last.a # last.b
    /\ last.pre1.position = last.pre2.position

\* C10: a call on two distinct bodies with identical positions takes the
\* overlap branch and divides by distance == 0 (and such a call is reachable:
\* CoincidentCallReached).
CoincidentCentresDivideByZero ==
    CoincidentCall => (last.overlap /\ last.divByZero)

\* C10 witness: such a call has happened, spawns and ticks from the empty world.
CoincidentCallReached == CoincidentCall /\ last.divByZero

\* |b.position - a.position|^2, exactly (in squared units).
DistSq(a, b) ==
    (b.position.x - a.position.x) * (b.position.x - a.position.x)
        + (b.position.y - a.position.y) * (b.position.y - a.position.y)

\* The call just made found the two bodies apart, overlapping and closing.
ClosingCall ==
    /\ Called
    /\ last.a # last.b
    /\ Overlap(Distance(last.pre1, last.pre2))
    /\ 0 < DistSq(last.pre1, last.pre2)
    /\ RelativeSpeed(Normal(last.pre1, last.pre2), last.pre1, last.pre2) < 0

\* (b.velocity - a.velocity) . normal is non-negative after the call, normal
\* the contact normal of the call.
NotClosingAfter ==
    RelativeSpeed(Normal(last.pre1, last.pre2), spheres[last.a], spheres[last.b]) >= 0

RoundingSlack ==
    (2 * FromInt(SPHERE_RADIUS) - Distance(last.pre1, last.pre2)) \div SCALE + 3

NoOpWhenSeparating ==
    (/\ Called
     /\ \/ ~Overlap(Distance(last.pre1, last.pre2))
        \/ /\ 0 < DistSq(last.pre1, last.pre2)
           /\ RelativeSpeed(Normal(last.pre1, last.pre2), last.pre1, last.pre2) >= 0)
    => (spheres[last.a] = last.pre1 /\ spheres[last.b] = last.pre2)

\* C4 witness: a call has just found two bodies overlapping and not closing.
OverlapNotClosingCall ==
    /\ Called
    /\ Overlap(Distance(last.pre1, last.pre2))
    /\ 0 < DistSq(last.pre1, last.pre2)
    /\ RelativeSpeed(Normal(last.pre1, last.pre2), last.pre1, last.pre2) >= 0

====
